---- MODULE Spec2Model ----
(***************************************************************************)
(* AutoInvest (planav/ai-auto-investment): a model of the market-data      *)
(* service and rate limiter sketched in the plans, of the dashboard's      *)
(* insight generation, and of the web client's auth store, api             *)
(* interceptors and protected routes, and of the DepositWithdraw and       *)
(* Analysis pages.                                                         *)
(*                                                                         *)
(* Each subsystem has its own variables, its own initial predicate and its *)
(* own next-state relation; a specification runs one subsystem and leaves  *)
(* the others at rest.                                                     *)
(***************************************************************************)
EXTENDS Integers, Sequences, FiniteSets, TLC

\* ------------------------------------------------------------------------
\* Bounds of the model
\* ------------------------------------------------------------------------

\* Number of concurrent get_quote coroutines.
NumCallers == 2
\* Last instant of the rate limiter's clock.
MaxTime == 4
\* Largest call budget and window length a RateLimiter is constructed with.
MaxBudget == 2
MaxWindowLen == 2
\* Cap of the count of recommendations shown in one drift episode.
MaxRecs == 2
\* Requests through the api instance that may be under way at once.
NumRequests == 2
\* Token pairs the server issues (by /auth/login and /auth/refresh).
MaxPairs == 3
\* Calls of the web client (requests, a login, an onboarding submission)
\* that may be under way at once.
MaxInFlight == 2
\* Calls of fetchAIAnalysis that may be under way at once.
NumAnalysisCalls == 2
\* The largest balance and portfolio value followed.
MaxBalance == 200
\* The longest transaction list followed.
MaxTransactions == 3

None == "None"

VARIABLES
    \* MarketDataService (plans/implementation-plan.md)
    cache,        \* Redis: cache key (symbol) -> serialised quote, or None
    qpc,          \* position of each get_quote coroutine
    qsym,         \* its symbol argument
    quote,        \* its local `quote` (None before it is built)
    price,        \* the market: symbol -> current price at the providers
    finnhubUp,    \* whether Finnhub answers
    yahooUp,      \* whether Yahoo Finance answers
    expired,      \* key -> the entry Redis dropped at its ttl (history)
    \* RateLimiter (plans/api-research.md)
    now,          \* time.time()
    max_calls,    \* self.max_calls
    window,       \* self.window
    calls,        \* self.calls, the deque of admitted timestamps
    admitted,     \* every timestamp at which can_call returned True
    \* Dashboard (frontend/web/src/pages/Dashboard.jsx)
    aiInsights,     \* the aiInsights state: the insights shown
    lastDrift,      \* portfolio name -> drift computed by the last evaluation
    lastAhead,      \* portfolio name -> insights pushed before its turn
    recsInEpisode,  \* portfolio name -> recommendations shown since it was
                    \* last evaluated at or below the threshold
    \* PortfolioOptimizer and PortfolioOptimizationPipeline
    \* (plans/implementation-plan.md)
    model,          \* PortfolioOptimizer.model: None, or the ALSTM object
    signals,        \* what the last direct predict_returns call gave
    ppc,            \* position of the pipeline's optimize()
    pin,            \* its arguments: symbols and constraints
    predictions,    \* its local `predictions`
    allocation,     \* its local `allocation`
    perror,         \* the exception that ended it
    quoted,         \* symbols whose get_quote call of Step 1 has completed
    historied,      \* symbols whose get_historical_data call has completed
    \* The web client: authStore.js, api.js, ProtectedRoute.jsx, App.jsx, Login
    user,           \* store: user
    token,          \* store: token
    refreshToken,   \* store: refreshToken
    isAuthenticated,\* store: isAuthenticated
    isLoading,      \* store: isLoading
    location,       \* the router's location
    fromState,      \* location.state.from
    screen,         \* the element the matched route renders
    reloading,      \* window.location.href was assigned: a page load is due
    issued,         \* token pairs the server has issued so far
    rpc,            \* request -> position in its life through the api instance
    rauth,          \* request -> its Authorization header
    retry,          \* request -> originalRequest._retry
    rstatus,        \* request -> HTTP status of the last response to it
    rrefresh,       \* request -> the Bearer token of its /auth/refresh call
    rerror,         \* request -> the error its promise was rejected with
    lpc,            \* Login.handleSubmit: position
    ltokens,        \* Login.handleSubmit: the pair /auth/login returned
    opc,            \* Onboarding.handleSubmit: position
    lastCall,       \* the last of login, logout, setTokens called on the store
    \* The drift computation of generateAiInsights, on its own
    driftIn,        \* the portfolio it is given
    driftOut,       \* the drift it computed
    \* The DepositWithdraw page (pages/DepositWithdraw.jsx) and its server
    balance,        \* useState: balance
    amount,         \* useState: amount, the text of the input
    activeTab,      \* useState: activeTab
    selectedPortfolio, \* useState: selectedPortfolio ('' when none)
    portfolios,     \* useState: portfolios
    transactions,   \* useState: transactions
    dwIsLoading,    \* useState: isLoading of this page
    isFetching,     \* useState: isFetching
    toast,          \* the message of the last toast
    dwpc,           \* position of the handler or of fetchUserData
    opKind,         \* the handler under way: deposit or withdrawal
    opAmount,       \* its depositAmount / withdrawAmount
    newBalance,     \* its newBalance
    recorded,       \* the entry the last successful operation added (history)
    serverPrefs,    \* the server: preferences.initial_investment
    serverPortfolios, \* the server: the user's portfolios
    \* Analysis page (fetchAIAnalysis)
    selectedAsset,  \* useState: selectedAsset
    aiAnalysis,     \* useState: aiAnalysis
    isAnalyzing,    \* useState: isAnalyzing
    analysisCall,   \* call of fetchAIAnalysis -> its symbol while it awaits
    lastRequested,  \* the symbol of the latest call (history)
    analysisToast,  \* the message of the last toast of the page
    analysisOutcome \* how the latest call to end ended (history)

quoteVars == <<cache, qpc, qsym, quote, price, finnhubUp, yahooUp, expired>>
limVars == <<now, max_calls, window, calls, admitted>>
dashVars == <<aiInsights, lastDrift, lastAhead, recsInEpisode>>
pipeVars == <<model, signals, ppc, pin, predictions, allocation, perror, quoted, historied>>
storeVars == <<user, token, refreshToken, isAuthenticated, isLoading>>
callVars == <<lastCall>>
driftVars == <<driftIn, driftOut>>
pageVars == <<balance, amount, activeTab, selectedPortfolio, portfolios, transactions, dwIsLoading, isFetching, toast>>
handlerVars == <<dwpc, opKind, opAmount, newBalance, recorded>>
serverVars == <<serverPrefs, serverPortfolios>>
walletVars == <<pageVars, handlerVars, serverVars>>
analysisVars == <<selectedAsset, aiAnalysis, isAnalyzing, analysisCall, lastRequested, analysisToast, analysisOutcome>>
routeVars == <<location, fromState, screen, reloading>>
reqVars == <<issued, rpc, rauth, retry, rstatus, rrefresh, rerror>>
loginVars == <<lpc, ltokens, opc>>
authVars == <<storeVars, callVars, routeVars, reqVars, loginVars>>
vars == <<quoteVars, limVars, dashVars, pipeVars, authVars, driftVars, walletVars, analysisVars>>

\* What each subsystem leaves alone.
quoteOthers == <<limVars, dashVars, pipeVars, authVars, driftVars, walletVars, analysisVars>>
limOthers == <<quoteVars, dashVars, pipeVars, authVars, driftVars, walletVars, analysisVars>>
dashOthers == <<quoteVars, limVars, pipeVars, authVars, driftVars, walletVars, analysisVars>>
pipeOthers == <<quoteVars, limVars, dashVars, authVars, driftVars, walletVars, analysisVars>>
authOthers == <<quoteVars, limVars, dashVars, pipeVars, driftVars, walletVars, analysisVars>>
driftOthers == <<quoteVars, limVars, dashVars, pipeVars, authVars, walletVars, analysisVars>>
walletOthers == <<quoteVars, limVars, dashVars, pipeVars, authVars, driftVars, analysisVars>>
analysisOthers == <<quoteVars, limVars, dashVars, pipeVars, authVars, driftVars, walletVars>>

\* ------------------------------------------------------------------------
\* MarketDataService.get_quote
\* ------------------------------------------------------------------------

Callers == 1..NumCallers
Symbols == {"AAPL", "MSFT"}
Prices == {100, 101}

\* Quote(symbol=..., price=data['c'], ...)
Quote(s, p) == [symbol |-> s, price |-> p]

\* quote.json(): the serialised form stored in Redis
QuoteJson(q) == <<q.symbol, q.price>>

\* Quote.parse_raw(cached)
ParseRaw(j) == [symbol |-> j[1], price |-> j[2]]

\* cache_key = f"quote:{symbol}"
CacheKey(s) == s

QuoteInit ==
    /\ cache = [s \in Symbols |-> None]
    /\ qpc = [c \in Callers |-> "idle"]
    /\ qsym = [c \in Callers |-> None]
    /\ quote = [c \in Callers |-> None]
    /\ price = [s \in Symbols |-> 100]
    /\ finnhubUp = TRUE
    /\ yahooUp = TRUE
    /\ expired = [s \in Symbols |-> None]

\* A caller invokes get_quote(symbol): runs to `await self.cache.get(cache_key)`.
GetQuote(c, s) ==
    /\ qpc[c] = "idle"
    /\ qpc' = [qpc EXCEPT ![c] = "cache_get"]
    /\ qsym' = [qsym EXCEPT ![c] = s]
    /\ quote' = [quote EXCEPT ![c] = None]
    /\ UNCHANGED <<cache, price, finnhubUp, yahooUp,
                   expired>>
    /\ UNCHANGED quoteOthers

\* cache.get answers with an entry: `if cached: return Quote.parse_raw(cached)`.
CacheHit(c) ==
    /\ qpc[c] = "cache_get"
    /\ cache[CacheKey(qsym[c])] # None
    /\ quote' = [quote EXCEPT ![c] = ParseRaw(cache[CacheKey(qsym[c])])]
    /\ qpc' = [qpc EXCEPT ![c] = "returned"]
    /\ UNCHANGED <<cache, qsym, price, finnhubUp, yahooUp,
                   expired>>
    /\ UNCHANGED quoteOthers

\* cache.get answers None: the coroutine goes on to
\* `await self.finnhub.get_quote(symbol)`, the provider call.
CacheMiss(c) ==
    /\ qpc[c] = "cache_get"
    /\ cache[CacheKey(qsym[c])] = None
    /\ qpc' = [qpc EXCEPT ![c] = "fetch"]
    /\ UNCHANGED <<cache, qsym, quote, price, finnhubUp, yahooUp,
                   expired>>
    /\ UNCHANGED quoteOthers

\* Finnhub answers: the Quote is built and `await self.cache.set(...)` starts.
FinnhubReturns(c) ==
    /\ qpc[c] = "fetch"
    /\ finnhubUp
    /\ quote' = [quote EXCEPT ![c] = Quote(qsym[c], price[qsym[c]])]
    /\ qpc' = [qpc EXCEPT ![c] = "cache_set"]
    /\ UNCHANGED <<cache, qsym, price, finnhubUp, yahooUp,
                   expired>>
    /\ UNCHANGED quoteOthers

\* Finnhub does not answer: the exception leaves get_quote, which has no
\* handler and never turns to self.yahoo.
FinnhubRaises(c) ==
    /\ qpc[c] = "fetch"
    /\ ~finnhubUp
    /\ qpc' = [qpc EXCEPT ![c] = "raised"]
    /\ UNCHANGED <<cache, qsym, quote, price, finnhubUp, yahooUp,
                   expired>>
    /\ UNCHANGED quoteOthers

\* cache.set(cache_key, quote.json(), ttl=60) completes; `return quote`.
CacheSet(c) ==
    /\ qpc[c] = "cache_set"
    /\ cache' = [cache EXCEPT ![CacheKey(qsym[c])] = QuoteJson(quote[c])]
    /\ expired' = [expired EXCEPT ![CacheKey(qsym[c])] = None]
    /\ qpc' = [qpc EXCEPT ![c] = "returned"]
    /\ UNCHANGED <<qsym, quote, price, finnhubUp, yahooUp>>
    /\ UNCHANGED quoteOthers

\* The caller has its result (or the exception) and may call again.
CallerDone(c) ==
    /\ qpc[c] \in {"returned", "raised"}
    /\ qpc' = [qpc EXCEPT ![c] = "idle"]
    /\ qsym' = [qsym EXCEPT ![c] = None]
    /\ quote' = [quote EXCEPT ![c] = None]
    /\ UNCHANGED <<cache, price, finnhubUp, yahooUp,
                   expired>>
    /\ UNCHANGED quoteOthers

\* Redis drops the entry when its ttl of 60 seconds has passed.
CacheExpire(s) ==
    /\ cache[s] # None
    /\ cache' = [cache EXCEPT ![s] = None]
    /\ expired' = [expired EXCEPT ![s] = cache[s]]
    /\ UNCHANGED <<qpc, qsym, quote, price, finnhubUp, yahooUp>>
    /\ UNCHANGED quoteOthers

\* The environment: the market moves, providers go down and come back.
PriceMove(s, p) ==
    /\ price[s] # p
    /\ price' = [price EXCEPT ![s] = p]
    /\ UNCHANGED <<cache, qpc, qsym, quote, finnhubUp, yahooUp,
                   expired>>
    /\ UNCHANGED quoteOthers

FinnhubToggle ==
    /\ finnhubUp' = ~finnhubUp
    /\ UNCHANGED <<cache, qpc, qsym, quote, price, yahooUp, expired>>
    /\ UNCHANGED quoteOthers

YahooToggle ==
    /\ yahooUp' = ~yahooUp
    /\ UNCHANGED <<cache, qpc, qsym, quote, price, finnhubUp, expired>>
    /\ UNCHANGED quoteOthers

QuoteNext ==
    \/ \E c \in Callers, s \in Symbols : GetQuote(c, s)
    \/ \E c \in Callers : CacheHit(c)
    \/ \E c \in Callers : CacheMiss(c)
    \/ \E c \in Callers : FinnhubReturns(c)
    \/ \E c \in Callers : FinnhubRaises(c)
    \/ \E c \in Callers : CacheSet(c)
    \/ \E c \in Callers : CallerDone(c)
    \/ \E s \in Symbols : CacheExpire(s)
    \/ \E s \in Symbols, p \in Prices : PriceMove(s, p)
    \/ FinnhubToggle
    \/ YahooToggle

\* ------------------------------------------------------------------------
\* RateLimiter
\* ------------------------------------------------------------------------

\* `while self.calls and self.calls[0] < now - self.window: self.calls.popleft()`
RECURSIVE RemoveOld(_, _, _)
RemoveOld(q, t, w) ==
    IF q # <<>> /\ Head(q) < t - w THEN RemoveOld(Tail(q), t, w) ELSE q

\* A wrong admission test: one call too many.
HasBudgetOffByOne(q, m) == Len(q) <= m

\* `if len(self.calls) < self.max_calls`
HasBudget(q, m) == Len(q) < m

LimIdle ==
    /\ now = 0
    /\ max_calls = 1
    /\ window = 1
    /\ calls = <<>>
    /\ admitted = <<>>

\* RateLimiter(max_calls, window): the deque starts empty.
LimInit ==
    /\ now = 0
    /\ max_calls \in 1..MaxBudget
    /\ window \in 1..MaxWindowLen
    /\ calls = <<>>
    /\ admitted = <<>>

\* can_call() finds budget: appends now, returns True.
CanCallTrue ==
    /\ HasBudget(RemoveOld(calls, now, window), max_calls)
    /\ calls' = Append(RemoveOld(calls, now, window), now)
    /\ admitted' = Append(admitted, now)
    /\ UNCHANGED <<now, max_calls, window>>
    /\ UNCHANGED limOthers

\* can_call() finds none: the old calls are dropped, returns False.
CanCallFalse ==
    /\ ~HasBudget(RemoveOld(calls, now, window), max_calls)
    /\ calls' = RemoveOld(calls, now, window)
    /\ UNCHANGED <<now, max_calls, window, admitted>>
    /\ UNCHANGED limOthers

\* time.time() advances.
Tick ==
    /\ now < MaxTime
    /\ now' = now + 1
    /\ UNCHANGED <<max_calls, window, calls, admitted>>
    /\ UNCHANGED limOthers

LimNext ==
    \/ CanCallTrue
    \/ CanCallFalse
    \/ Tick

\* ------------------------------------------------------------------------
\* Dashboard: fetchPortfolioData and generateAiInsights
\* ------------------------------------------------------------------------
\* Weights, scores, returns and volatilities are in hundredths (0.05 is 5).

\* `drift > 0.05`
DriftThreshold == 5
\* `avgVolatility > 0.2`
VolatilityLimit == 20
\* `holding.confidence_score > 0.8`
MinConfidence == 80
\* `holding.predicted_return > 0.1`
MinReturn == 10
\* `insights.slice(0, 3)`
MaxInsights == 3

\* The responses of GET /portfolios the model draws from.
PortfolioNames == <<"p1", "p2">>
HoldingSymbols == <<"A", "B">>
Weights == {52, 53}
Signals == {<<90, 20>>, <<80, 20>>}
Volatilities == {20, 30}

HoldingsAt(n) ==
    {[i \in 1..n |-> [symbol |-> HoldingSymbols[i], weight |-> f[i][1],
                      confidence_score |-> f[i][2][1],
                      predicted_return |-> f[i][2][2]]] :
        f \in [1..n -> Weights \X Signals]}

HoldingLists == UNION {HoldingsAt(n) : n \in 0..Len(HoldingSymbols)}

PortfoliosAt(n) ==
    {[i \in 1..n |-> [name |-> PortfolioNames[i], holdings |-> f[i][1],
                      volatility |-> f[i][2]]] :
        f \in [1..n -> HoldingLists \X Volatilities]}

Responses == UNION {PortfoliosAt(n) : n \in 0..Len(PortfolioNames)}

Min(a, b) == IF a < b THEN a ELSE b
Abs(a) == IF a < 0 THEN -a ELSE a

RECURSIVE SumWeights(_)
\* `portfolio.holdings.reduce((sum, h) => sum + h.weight, 0)`
SumWeights(hs) ==
    IF hs = <<>> THEN 0 ELSE Head(hs).weight + SumWeights(Tail(hs))

\* `Math.abs(totalWeight - 1.0)`
Drift(portfolio) == Abs(SumWeights(portfolio.holdings) - 100)

\* A wrong comparison: the threshold itself triggers.
NeedsRebalanceAtThreshold(portfolio) == Drift(portfolio) >= DriftThreshold

\* `if (drift > 0.05)`
NeedsRebalance(portfolio) == Drift(portfolio) > DriftThreshold

\* The insight pushed for a drifted portfolio.
Recommendation(portfolio) ==
    [type |-> "action", about |-> portfolio.name,
     confidence |-> Min(95, 70 + Drift(portfolio))]

\* `holding.confidence_score > 0.8 && holding.predicted_return > 0.1`
StrongBuy(h) ==
    h.confidence_score > MinConfidence /\ h.predicted_return > MinReturn

RECURSIVE SignalInsights(_)
\* `portfolio.holdings.forEach(holding => ...)`: one insight per strong signal
SignalInsights(hs) ==
    IF hs = <<>> THEN <<>>
    ELSE (IF StrongBuy(Head(hs))
          THEN <<[type |-> "opportunity", about |-> Head(hs).symbol,
                  confidence |-> Head(hs).confidence_score]>>
          ELSE <<>>) \o SignalInsights(Tail(hs))

\* The body of `portfolios.forEach(portfolio => ...)` for one portfolio.
PortfolioInsights(portfolio) ==
    IF portfolio.holdings # <<>>
    THEN (IF NeedsRebalance(portfolio)
          THEN <<Recommendation(portfolio)>> ELSE <<>>)
         \o SignalInsights(portfolio.holdings)
    ELSE <<>>

RECURSIVE AllPortfolioInsights(_)
AllPortfolioInsights(ps) ==
    IF ps = <<>> THEN <<>>
    ELSE PortfolioInsights(Head(ps)) \o AllPortfolioInsights(Tail(ps))

RECURSIVE SumVolatility(_)
\* `portfolios.reduce((sum, p) => sum + (p.volatility || 0), 0)`
SumVolatility(ps) ==
    IF ps = <<>> THEN 0 ELSE Head(ps).volatility + SumVolatility(Tail(ps))

\* `avgVolatility > 0.2`, the average being the sum over portfolios.length
HighVolatility(ps) == SumVolatility(ps) > VolatilityLimit * Len(ps)

\* `insights.slice(0, 3)`
Slice(s, n) == SubSeq(s, 1, Min(Len(s), n))

\* The list generateAiInsights passes to setAiInsights.
GenerateAiInsights(ps) ==
    IF ps = <<>>
    THEN <<[type |-> "info", about |-> None, confidence |-> 100]>>
    ELSE Slice(AllPortfolioInsights(ps)
               \o (IF HighVolatility(ps)
                   THEN <<[type |-> "warning", about |-> None,
                           confidence |-> 75]>>
                   ELSE <<>>),
               MaxInsights)

\* Whether the insights shown hold a rebalancing recommendation for `name`.
Recommends(insights, name) ==
    \E i \in DOMAIN insights :
        insights[i].type = "action" /\ insights[i].about = name

\* The portfolios of a response that the forEach computes a drift for.
Evaluated(ps) == {i \in DOMAIN ps : ps[i].holdings # <<>>}

NameSet == {PortfolioNames[i] : i \in DOMAIN PortfolioNames}

\* Stands for "no drift was computed": a drift is never negative.
NotEvaluated == 0 - 1

\* The drift the evaluation of `ps` computed for `name`, or NotEvaluated.
DriftOf(ps, name) ==
    IF \E i \in Evaluated(ps) : ps[i].name = name
    THEN Drift(ps[CHOOSE i \in Evaluated(ps) : ps[i].name = name])
    ELSE NotEvaluated

\* The number of insights pushed before the forEach reaches `name`.
AheadOf(ps, name) ==
    IF \E i \in DOMAIN ps : ps[i].name = name
    THEN Len(AllPortfolioInsights(
             SubSeq(ps, 1, (CHOOSE i \in DOMAIN ps : ps[i].name = name) - 1)))
    ELSE 0

DashInit ==
    /\ aiInsights = <<>>
    /\ lastDrift = [n \in NameSet |-> NotEvaluated]
    /\ lastAhead = [n \in NameSet |-> 0]
    /\ recsInEpisode = [n \in NameSet |-> 0]

\* fetchPortfolioData, run on mount and by the 60-second interval, when
\* portfolioApi.getAll() answers `ps`: generateAiInsights(response.data).
FetchPortfolioData(ps) ==
    /\ aiInsights' = GenerateAiInsights(ps)
    /\ lastDrift' = [n \in NameSet |-> DriftOf(ps, n)]
    /\ lastAhead' = [n \in NameSet |-> AheadOf(ps, n)]
    /\ recsInEpisode' =
         [n \in NameSet |->
            IF Recommends(aiInsights', n)
            THEN Min(recsInEpisode[n] + 1, MaxRecs)
            ELSE IF lastDrift'[n] > DriftThreshold
                 THEN recsInEpisode[n]
                 ELSE 0]
    /\ UNCHANGED dashOthers

\* fetchPortfolioData when the request fails: the catch reports it, and the
\* insights of the last evaluation stay.
FetchPortfolioDataFails ==
    /\ UNCHANGED <<aiInsights, lastDrift, lastAhead, recsInEpisode>>
    /\ UNCHANGED dashOthers

DashNext ==
    \/ \E ps \in Responses : FetchPortfolioData(ps)
    \/ FetchPortfolioDataFails

\* ------------------------------------------------------------------------
\* The signal engine, the allocation optimizer and the pipeline
\* ------------------------------------------------------------------------
\* Weights are in units of 1/120 of the portfolio (12 is 10%), predicted
\* returns in hundredths.

Universe == {"A", "B", "C"}
Sector == [s \in Universe |-> IF s = "C" THEN "energy" ELSE "tech"]
Sectors == {"tech", "energy"}
Returns == {-3, 8}

\* The whole portfolio, the step of the optimizer's weight grid, and the
\* relative widening of the sector caps on the retry (a fifth).
WeightUnit == 120
WeightStep == 12
CapWideningDivisor == 5

\* The constraint sets a run is asked for: the cash reserve (0 or 10%), one
\* lower bound (none or 20%) and one upper bound (40% or none) for every
\* symbol, a cap on tech (50% or none).
ConstraintSets ==
    [cash : {0, 12}, lower : {0, 24}, upper : {48, WeightUnit},
     techCap : {60, WeightUnit}]

LowerBound(c, s) == c.lower
UpperBound(c, s) == c.upper
SectorCap(c, sec) == IF sec = "tech" THEN c.techCap ELSE WeightUnit

RECURSIVE SumOver(_, _)
\* The sum of f over the set S.
SumOver(f, S) ==
    IF S = {} THEN 0
    ELSE LET s == CHOOSE x \in S : TRUE IN f[s] + SumOver(f, S \ {s})

\* `if not self.model: raise ValueError("Model not trained")`, else
\* `self.model.predict(symbols)`: the output `f` of whatever model is held.
PredictReturns(m, f) ==
    IF m = None
    THEN [ok |-> FALSE, error |-> "ValueError"]
    ELSE [ok |-> TRUE, by |-> m, returns |-> f]

\* No signals, no arguments, no allocation (yet).
NoSignals == [ok |-> FALSE, error |-> None]
NoArguments == [symbols |-> {}]
NoAllocation == [weights |-> <<>>, status |-> None]

\* An equal-weight fallback that forgets the cash reserve.
EqualWeightNoReserve(S, c) == [s \in S |-> WeightUnit \div Cardinality(S)]

\* Equal weights over the eligible symbols, respecting cash_reserve_fraction.
EqualWeight(S, c) == [s \in S |-> (WeightUnit - c.cash) \div Cardinality(S)]

\* A feasible set that leaves out the per-asset bounds.
FeasibleUnbounded(S, c, cap) ==
    {w \in [S -> {g \in 0..WeightUnit : g % WeightStep = 0}] :
        /\ SumOver(w, S) = WeightUnit - c.cash
        /\ \A sec \in Sectors :
              SumOver(w, {s \in S : Sector[s] = sec}) <= cap[sec]}

\* The weight vectors that satisfy the constraints under the caps `cap`.
Feasible(S, c, cap) ==
    {w \in [S -> {g \in 0..c.upper : g % WeightStep = 0}] :
        /\ \A s \in S : LowerBound(c, s) <= w[s] /\ w[s] <= UpperBound(c, s)
        /\ SumOver(w, S) = WeightUnit - c.cash
        /\ \A sec \in Sectors :
              SumOver(w, {s \in S : Sector[s] = sec}) <= cap[sec]}

Caps(c) == [sec \in Sectors |-> SectorCap(c, sec)]
RelaxedCaps(c) ==
    [sec \in Sectors |->
        SectorCap(c, sec) + SectorCap(c, sec) \div CapWideningDivisor]

\* Expected return less the risk penalty of the tier.
Objective(w, S, r, penalty) ==
    WeightUnit * SumOver([s \in S |-> w[s] * r[s]], S)
        - penalty * SumOver([s \in S |-> w[s] * w[s]], S)

RiskPenalty(tier) ==
    CASE tier = "conservative" -> 3
      [] tier = "moderate" -> 2
      [] OTHER -> 1

Best(F, S, r, penalty) ==
    LET value == [w \in F |-> Objective(w, S, r, penalty)]
    IN  CHOOSE w \in F : \A v \in F : value[w] >= value[v]

\* optimize(symbols, signals, constraints): the constrained optimum, else
\* the optimum under relaxed sector caps, else equal weights.
Optimize(S, sig, c, tier) ==
    LET strict == Feasible(S, c, Caps(c))
        relaxed == Feasible(S, c, RelaxedCaps(c))
    IN  IF sig.ok /\ strict # {}
        THEN [weights |-> Best(strict, S, sig.returns, RiskPenalty(tier)),
              status |-> "optimal"]
        ELSE IF sig.ok /\ relaxed # {}
        THEN [weights |-> Best(relaxed, S, sig.returns, RiskPenalty(tier)),
              status |-> "relaxed"]
        ELSE [weights |-> EqualWeight(S, c), status |-> "fallback"]

PipeInit ==
    /\ model = None
    /\ signals = NoSignals
    /\ ppc = "idle"
    /\ pin = NoArguments
    /\ predictions = NoSignals
    /\ allocation = NoAllocation
    /\ perror = None
    /\ quoted = {}
    /\ historied = {}

\* PortfolioOptimizer.train_model: `self.model = ALSTM(...)`, then
\* trainer.fit, which completes or raises with self.model already set.
TrainModel(fits) ==
    /\ ppc = "idle"
    /\ model' = IF fits THEN "trained" ELSE "untrained"
    /\ UNCHANGED <<signals, ppc, pin, predictions, allocation, perror>>
    /\ UNCHANGED <<quoted, historied>>
    /\ UNCHANGED pipeOthers

\* PortfolioOptimizer.predict_returns(symbols), called on its own.
PredictReturnsCall(f) ==
    /\ ppc = "idle"
    /\ signals' = PredictReturns(model, f)
    /\ UNCHANGED <<model, ppc, pin, predictions, allocation, perror>>
    /\ UNCHANGED <<quoted, historied>>
    /\ UNCHANGED pipeOthers

\* PortfolioOptimizationPipeline.optimize(user, symbols, ..., constraints)
\* is called: Step 1, `await self.market_data.get_batch_quotes(symbols)`.
PipelineOptimize(S, c, tier) ==
    /\ ppc = "idle"
    /\ ppc' = "quotes"
    /\ pin' = [symbols |-> S, constraints |-> c, risk_tolerance |-> tier]
    /\ predictions' = NoSignals
    /\ allocation' = NoAllocation
    /\ perror' = None
    /\ UNCHANGED <<model, signals>>
    /\ quoted' = {}
    /\ historied' = {}
    /\ UNCHANGED pipeOthers

\* A loop over the symbols that leaves without having done them all.
LoopDoneEarly(done, S) == done # {}

\* `for symbol in symbols:` has run its body for every symbol.
LoopDone(done, S) == done = S

\* Step 1, get_batch_quotes: the loop awaits get_quote(symbol) for one symbol
\* after the other; a call that raises ends the loop and optimize, neither of
\* which has a handler.
PipelineQuote(s, ok) ==
    /\ ppc = "quotes"
    /\ s \in pin.symbols \ quoted
    /\ quoted' = IF ok THEN quoted \cup {s} ELSE quoted
    /\ ppc' = IF ~ok THEN "raised"
              ELSE IF LoopDone(quoted', pin.symbols) THEN "history"
              ELSE "quotes"
    /\ perror' = IF ok THEN None ELSE "ProviderError"
    /\ UNCHANGED <<model, signals, pin, predictions, allocation, historied>>
    /\ UNCHANGED pipeOthers

\* Step 2: the loop awaits get_historical_data(symbol) for each symbol.
PipelineHistory(s, ok) ==
    /\ ppc = "history"
    /\ s \in pin.symbols \ historied
    /\ historied' = IF ok THEN historied \cup {s} ELSE historied
    /\ ppc' = IF ~ok THEN "raised"
              ELSE IF LoopDone(historied', pin.symbols) THEN "prepare"
              ELSE "history"
    /\ perror' = IF ok THEN None ELSE "ProviderError"
    /\ UNCHANGED <<model, signals, pin, predictions, allocation, quoted>>
    /\ UNCHANGED pipeOthers

\* Step 3: `await self.qlib.prepare_data(...)`.
PipelinePrepare(ok) ==
    /\ ppc = "prepare"
    /\ ppc' = IF ok THEN "train" ELSE "raised"
    /\ perror' = IF ok THEN None ELSE "ProviderError"
    /\ UNCHANGED <<model, signals, pin, predictions, allocation, quoted,
                   historied>>
    /\ UNCHANGED pipeOthers

\* Step 4: train_model; a failed fit ends optimize with the exception.
PipelineTrain(fits) ==
    /\ ppc = "train"
    /\ model' = IF fits THEN "trained" ELSE "untrained"
    /\ ppc' = IF fits THEN "predict" ELSE "raised"
    /\ perror' = IF fits THEN None ELSE "TrainingError"
    /\ UNCHANGED <<signals, pin, predictions, allocation>>
    /\ UNCHANGED <<quoted, historied>>
    /\ UNCHANGED pipeOthers

\* Step 5: predict_returns; its ValueError would end optimize too.
PipelinePredict ==
    /\ ppc = "predict"
    /\ \E f \in [pin.symbols -> Returns] :
          /\ predictions' = PredictReturns(model, f)
          /\ ppc' = IF predictions'.ok THEN "optimize" ELSE "raised"
          /\ perror' = IF predictions'.ok THEN None ELSE predictions'.error
    /\ UNCHANGED <<model, signals, pin, allocation>>
    /\ UNCHANGED <<quoted, historied>>
    /\ UNCHANGED pipeOthers

\* Step 6: `allocation = self.portfolio_engine.optimize(...)`.
PipelineAllocate ==
    /\ ppc = "optimize"
    /\ allocation' = Optimize(pin.symbols, predictions, pin.constraints,
                              pin.risk_tolerance)
    /\ ppc' = "analysis"
    /\ UNCHANGED <<model, signals, pin, predictions, perror>>
    /\ UNCHANGED <<quoted, historied>>
    /\ UNCHANGED pipeOthers

\* Steps 7 and 8: the market context and the LLM analysis; then
\* `return OptimizationResult(allocation=allocation, ...)`.
PipelineAnalysis(ok) ==
    /\ ppc = "analysis"
    /\ ppc' = IF ok THEN "done" ELSE "raised"
    /\ perror' = IF ok THEN None ELSE "AnalysisError"
    /\ allocation' = IF ok THEN allocation ELSE NoAllocation
    /\ UNCHANGED <<model, signals, pin, predictions>>
    /\ UNCHANGED <<quoted, historied>>
    /\ UNCHANGED pipeOthers

\* The caller has the result or the exception.
PipelineReturn ==
    /\ ppc \in {"done", "raised"}
    /\ ppc' = "idle"
    /\ pin' = NoArguments
    /\ predictions' = NoSignals
    /\ allocation' = NoAllocation
    /\ perror' = None
    /\ UNCHANGED <<model, signals>>
    /\ quoted' = {}
    /\ historied' = {}
    /\ UNCHANGED pipeOthers

SymbolSets == SUBSET Universe \ {{}}
Tiers == {"conservative", "aggressive"}

PipeNext ==
    \/ \E fits \in BOOLEAN : TrainModel(fits)
    \/ \E r \in Returns : PredictReturnsCall([s \in Universe |-> r])
    \/ \E S \in SymbolSets, c \in ConstraintSets, tier \in Tiers :
          PipelineOptimize(S, c, tier)
    \/ \E s \in Universe, ok \in BOOLEAN : PipelineQuote(s, ok)
    \/ \E s \in Universe, ok \in BOOLEAN : PipelineHistory(s, ok)
    \/ \E ok \in BOOLEAN : PipelinePrepare(ok)
    \/ \E fits \in BOOLEAN : PipelineTrain(fits)
    \/ PipelinePredict
    \/ PipelineAllocate
    \/ \E ok \in BOOLEAN : PipelineAnalysis(ok)
    \/ PipelineReturn

\* ------------------------------------------------------------------------
\* The web client: auth store, api interceptors, protected routes, login
\* ------------------------------------------------------------------------

Requests == 1..NumRequests

\* The calls of the client that are under way: requests of the api instance
\* not yet handed back, a login, an onboarding submission.
InFlight ==
    Cardinality({r \in Requests : rpc[r] # "idle"})
        + (IF lpc # "idle" THEN 1 ELSE 0)
        + (IF opc # "idle" THEN 1 ELSE 0)

\* Tokens: the server issues them in pairs; the k-th pair is an access token
\* and a refresh token. NoToken is null.
NoToken == [kind |-> "null", pair |-> 0]
Access(k) == [kind |-> "access", pair |-> k]
Refresh(k) == [kind |-> "refresh", pair |-> k]

\* The routes of App.jsx: those wrapped in ProtectedRoute, and public ones.
Protected ==
    {"/onboarding", "/dashboard", "/portfolio", "/analysis",
     "/deposit-withdraw"}
Public == {"/", "/login"}
Locations == Protected \cup Public
NoLocation == "none"

\* HTTP statuses of a failed response.
Unauthorized == 401
ServerError == 500

\* The store after logout().
LogoutKeepsTokens(s) ==
    [s EXCEPT !.user = None, !.isAuthenticated = FALSE]

\* logout: () => set({user: null, token: null, refreshToken: null,
\*                    isAuthenticated: false})
Logout(s) ==
    [s EXCEPT !.user = None, !.token = NoToken, !.refreshToken = NoToken,
              !.isAuthenticated = FALSE]

\* A setTokens that keeps the pair an earlier refresh has stored.
SetTokensFirstWins(s, t, rt) ==
    IF s.token.pair > 1 THEN s
    ELSE [s EXCEPT !.token = t, !.refreshToken = rt]

\* A setTokens that stores nothing once the user has logged out.
SetTokensIfLoggedIn(s, t, rt) ==
    IF s.isAuthenticated THEN [s EXCEPT !.token = t, !.refreshToken = rt]
    ELSE s

\* setTokens: (token, refreshToken) => set({token, refreshToken})
SetTokens(s, t, rt) == [s EXCEPT !.token = t, !.refreshToken = rt]

\* login: (user, token, refreshToken) => set({..., isAuthenticated: true})
Login(s, u, t, rt) ==
    [s EXCEPT !.user = u, !.token = t, !.refreshToken = rt,
              !.isAuthenticated = TRUE]

\* An updateUser that merges the updates into a null user.
UpdateUserFromNull(s) == [s EXCEPT !.user = "user updated"]

\* updateUser: (updates) => set((state) => ({user: state.user ?
\*                 {...state.user, ...updates} : null}))
UpdateUser(s) ==
    [s EXCEPT !.user = IF s.user # None THEN "user updated" ELSE None]

\* setLoading: (isLoading) => set({isLoading})
SetLoading(s, b) == [s EXCEPT !.isLoading = b]

\* The store as one record, and back into the variables.
Store ==
    [user |-> user, token |-> token, refreshToken |-> refreshToken,
     isAuthenticated |-> isAuthenticated, isLoading |-> isLoading]

StoreBecomes(s) ==
    /\ user' = s.user
    /\ token' = s.token
    /\ refreshToken' = s.refreshToken
    /\ isAuthenticated' = s.isAuthenticated
    /\ isLoading' = s.isLoading

\* A ProtectedRoute that lets the page through while not authenticated.
ProtectedRouteNoCheck(authenticated, loading) ==
    IF loading THEN "Loading" ELSE "children"

\* ProtectedRoute: the loading indicator, the redirect, or the children.
ProtectedRoute(authenticated, loading) ==
    IF loading THEN "Loading"
    ELSE IF ~authenticated THEN "Navigate"
    ELSE "children"

\* What the router shows for location `loc`: a public page, or what the
\* ProtectedRoute around a protected page returns; its <Navigate to="/login"
\* state={{from: location}} replace/> moves the router to /login.
Route(loc, from, s) ==
    IF loc \in Protected
    THEN CASE ProtectedRoute(s.isAuthenticated, s.isLoading) = "Loading" ->
                [location |-> loc, fromState |-> from, screen |-> "Loading"]
           [] ProtectedRoute(s.isAuthenticated, s.isLoading) = "Navigate" ->
                [location |-> "/login", fromState |-> loc,
                 screen |-> "/login"]
           [] OTHER ->
                [location |-> loc, fromState |-> from, screen |-> loc]
    ELSE [location |-> loc, fromState |-> from, screen |-> loc]

\* The routes render again with the router at `loc` and the store `s`.
Render(loc, from, s) ==
    /\ location' = Route(loc, from, s).location
    /\ fromState' = Route(loc, from, s).fromState
    /\ screen' = Route(loc, from, s).screen

\* A request interceptor that adds nothing.
RequestHeaderUntouched(header, t) == header

\* The request interceptor: `if (token) config.headers.Authorization = ...`
RequestHeader(header, t) == IF t # NoToken THEN t ELSE header

\* A refresh that is attempted without a refresh token.
HasRefreshTokenAlways(rt) == TRUE

\* `if (refreshToken)` on getRefreshToken()
HasRefreshToken(rt) == rt # NoToken

\* A response interceptor that forgets the _retry mark.
ShouldRefreshAgain(status, retried) == status = Unauthorized

\* `error.response?.status === 401 && !originalRequest._retry`
ShouldRefresh(status, retried) == status = Unauthorized /\ ~retried

AuthInit ==
    /\ user = None
    /\ token = NoToken
    /\ refreshToken = NoToken
    /\ isAuthenticated = FALSE
    /\ isLoading = FALSE
    /\ location = "/"
    /\ fromState = NoLocation
    /\ screen = "/"
    /\ reloading = FALSE
    /\ issued = 0
    /\ rpc = [r \in Requests |-> "idle"]
    /\ rauth = [r \in Requests |-> NoToken]
    /\ retry = [r \in Requests |-> FALSE]
    /\ rstatus = [r \in Requests |-> 0]
    /\ rrefresh = [r \in Requests |-> NoToken]
    /\ rerror = [r \in Requests |-> None]
    /\ lpc = "idle"
    /\ ltokens = 0
    /\ opc = "idle"
    /\ lastCall = "none"

\* The user opens a route (a link, the address bar, navigate()).
Visit(loc) ==
    /\ ~reloading
    /\ loc # location
    /\ Render(loc, NoLocation, Store)
    /\ UNCHANGED <<storeVars, callVars, reloading, reqVars, loginVars>>
    /\ UNCHANGED authOthers

\* Navbar: onClick={logout}.
ClickLogout ==
    /\ ~reloading
    /\ isAuthenticated
    /\ StoreBecomes(Logout(Store))
    /\ Render(location, fromState, Logout(Store))
    /\ lastCall' = "logout"
    /\ UNCHANGED <<reloading, reqVars, loginVars>>
    /\ UNCHANGED authOthers

\* The store's setLoading, while the auth state is being checked.
CallSetLoading(b) ==
    /\ ~reloading
    /\ isLoading # b
    /\ StoreBecomes(SetLoading(Store, b))
    /\ Render(location, fromState, SetLoading(Store, b))
    /\ UNCHANGED <<callVars, reloading, reqVars, loginVars>>
    /\ UNCHANGED authOthers

\* Login.handleSubmit: `await authApi.login(formData)`.
LoginSubmit ==
    /\ ~reloading
    /\ screen = "/login"
    /\ lpc = "idle"
    /\ InFlight < MaxInFlight
    /\ lpc' = "login"
    /\ UNCHANGED <<storeVars, callVars, routeVars, reqVars, ltokens,
                   opc>>
    /\ UNCHANGED authOthers

\* /auth/login, or its re-sending after a refresh, answers with a token
\* pair: `await axios.get(.../auth/me)`.
LoginAnswered ==
    /\ lpc \in {"login", "loginResent"}
    /\ issued < MaxPairs
    /\ issued' = issued + 1
    /\ ltokens' = issued + 1
    /\ lpc' = "me"
    /\ UNCHANGED <<storeVars, callVars, routeVars, rpc, rauth, retry, rstatus,
                   rrefresh, rerror, opc>>
    /\ UNCHANGED authOthers

\* /auth/me answers: login(userResponse.data, access_token, refresh_token),
\* then navigate('/dashboard', {replace: true}).
LoginCompletes ==
    /\ lpc = "me"
    /\ StoreBecomes(Login(Store, "user", Access(ltokens), Refresh(ltokens)))
    /\ Render("/dashboard", NoLocation,
              Login(Store, "user", Access(ltokens), Refresh(ltokens)))
    /\ lpc' = "idle"
    /\ ltokens' = 0
    /\ lastCall' = "login"
    /\ UNCHANGED <<reloading, reqVars, opc>>
    /\ UNCHANGED authOthers

\* /auth/login is answered 401 while the store holds a refresh token:
\* authApi.login is a call of the api instance, so the error handler of the
\* response interceptor marks it and awaits /auth/refresh.
LoginUnauthorized ==
    /\ lpc = "login"
    /\ ShouldRefresh(Unauthorized, FALSE)
    /\ HasRefreshToken(refreshToken)
    /\ lpc' = "loginRefreshing"
    /\ UNCHANGED <<storeVars, callVars, routeVars, reqVars, ltokens, opc>>
    /\ UNCHANGED authOthers

\* That /auth/refresh answers: setTokens, and /auth/login is sent again.
LoginRefreshAnswered ==
    /\ lpc = "loginRefreshing"
    /\ issued < MaxPairs
    /\ issued' = issued + 1
    /\ StoreBecomes(SetTokens(Store, Access(issued + 1), Refresh(issued + 1)))
    /\ Render(location, fromState,
              SetTokens(Store, Access(issued + 1), Refresh(issued + 1)))
    /\ lastCall' = "setTokens"
    /\ lpc' = "loginResent"
    /\ UNCHANGED <<reloading, rpc, rauth, retry, rstatus, rrefresh, rerror,
                   ltokens, opc>>
    /\ UNCHANGED authOthers

\* That /auth/refresh fails: logout(), window.location.href = '/login', and
\* the rejection reaches the catch of handleSubmit.
LoginRefreshFails ==
    /\ lpc = "loginRefreshing"
    /\ StoreBecomes(Logout(Store))
    /\ Render(location, fromState, Logout(Store))
    /\ reloading' = TRUE
    /\ lastCall' = "logout"
    /\ lpc' = "idle"
    /\ UNCHANGED <<reqVars, ltokens, opc>>
    /\ UNCHANGED authOthers

\* /auth/login, its re-sending or /auth/me fails: the catch reports it.
LoginFails ==
    /\ lpc \in {"login", "loginResent", "me"}
    /\ lpc' = "idle"
    /\ ltokens' = 0
    /\ UNCHANGED <<storeVars, callVars, routeVars, reqVars, opc>>
    /\ UNCHANGED authOthers

\* Onboarding.handleSubmit: `await userApi.updatePreferences(...)`, then
\* `await portfolioApi.create(...)`.
OnboardingSubmit ==
    /\ ~reloading
    /\ screen = "/onboarding"
    /\ opc = "idle"
    /\ InFlight < MaxInFlight
    /\ opc' = "submitting"
    /\ UNCHANGED <<storeVars, callVars, routeVars, reqVars, lpc, ltokens>>
    /\ UNCHANGED authOthers

\* Both calls have answered: updateUser({...}), navigate('/dashboard').
OnboardingCompletes ==
    /\ ~reloading
    /\ opc = "submitting"
    /\ opc' = "idle"
    /\ StoreBecomes(UpdateUser(Store))
    /\ Render("/dashboard", NoLocation, UpdateUser(Store))
    /\ UNCHANGED <<callVars, reloading, reqVars, lpc, ltokens>>
    /\ UNCHANGED authOthers

\* One of the calls fails: the catch reports it.
OnboardingFails ==
    /\ opc = "submitting"
    /\ opc' = "idle"
    /\ UNCHANGED <<storeVars, callVars, routeVars, reqVars, lpc, ltokens>>
    /\ UNCHANGED authOthers

\* A component calls the api instance: the request interceptor adds the
\* store's token and the request is sent.
ApiRequest(r) ==
    /\ ~reloading
    /\ rpc[r] = "idle"
    /\ InFlight < MaxInFlight
    /\ rpc' = [rpc EXCEPT ![r] = "sent"]
    /\ rauth' = [rauth EXCEPT ![r] = RequestHeader(NoToken, token)]
    /\ retry' = [retry EXCEPT ![r] = FALSE]
    /\ rstatus' = [rstatus EXCEPT ![r] = 0]
    /\ rrefresh' = [rrefresh EXCEPT ![r] = NoToken]
    /\ rerror' = [rerror EXCEPT ![r] = None]
    /\ UNCHANGED <<storeVars, callVars, routeVars, issued, loginVars>>
    /\ UNCHANGED authOthers

\* The response is a success: `(response) => response`.
ResponseOk(r) ==
    /\ rpc[r] \in {"sent", "resent"}
    /\ rpc' = [rpc EXCEPT ![r] = "resolved"]
    /\ rstatus' = [rstatus EXCEPT ![r] = 200]
    /\ UNCHANGED <<storeVars, callVars, routeVars, issued, rauth, retry,
                   rrefresh, rerror, loginVars>>
    /\ UNCHANGED authOthers

\* The response is an error with `status`: the error handler of the
\* response interceptor, up to its await or its return.
ResponseError(r, status) ==
    /\ rpc[r] \in {"sent", "resent"}
    /\ rstatus' = [rstatus EXCEPT ![r] = status]
    /\ IF ShouldRefresh(status, retry[r])
       THEN /\ retry' = [retry EXCEPT ![r] = TRUE]
            /\ IF HasRefreshToken(refreshToken)
               THEN /\ rpc' = [rpc EXCEPT ![r] = "refreshing"]
                    /\ rrefresh' = [rrefresh EXCEPT ![r] = refreshToken]
                    /\ UNCHANGED rerror
               ELSE /\ rpc' = [rpc EXCEPT ![r] = "rejected"]
                    /\ rerror' = [rerror EXCEPT ![r] = "error"]
                    /\ UNCHANGED rrefresh
       ELSE /\ rpc' = [rpc EXCEPT ![r] = "rejected"]
            /\ rerror' = [rerror EXCEPT ![r] = "error"]
            /\ UNCHANGED <<retry, rrefresh>>
    /\ UNCHANGED <<storeVars, callVars, routeVars, issued, rauth, loginVars>>
    /\ UNCHANGED authOthers

\* /auth/refresh answers with a new pair: setTokens, the new access token
\* is put on the original request, and `return api(originalRequest)` sends it
\* again through the request interceptor.
RefreshAnswered(r) ==
    /\ rpc[r] = "refreshing"
    /\ issued < MaxPairs
    /\ issued' = issued + 1
    /\ StoreBecomes(SetTokens(Store, Access(issued + 1), Refresh(issued + 1)))
    /\ rauth' = [rauth EXCEPT ![r] =
                    RequestHeader(Access(issued + 1),
                        SetTokens(Store, Access(issued + 1),
                                  Refresh(issued + 1)).token)]
    /\ rpc' = [rpc EXCEPT ![r] = "resent"]
    /\ Render(location, fromState,
              SetTokens(Store, Access(issued + 1), Refresh(issued + 1)))
    /\ lastCall' = "setTokens"
    /\ UNCHANGED <<reloading, retry, rstatus, rrefresh, rerror, loginVars>>
    /\ UNCHANGED authOthers

\* /auth/refresh fails: logout(), window.location.href = '/login',
\* `return Promise.reject(refreshError)`.
RefreshFails(r) ==
    /\ rpc[r] = "refreshing"
    /\ StoreBecomes(Logout(Store))
    /\ Render(location, fromState, Logout(Store))
    /\ reloading' = TRUE
    /\ rpc' = [rpc EXCEPT ![r] = "rejected"]
    /\ rerror' = [rerror EXCEPT ![r] = "refreshError"]
    /\ lastCall' = "logout"
    /\ UNCHANGED <<issued, rauth, retry, rstatus, rrefresh, loginVars>>
    /\ UNCHANGED authOthers

\* The caller has handled the outcome of its request.
Settle(r) ==
    /\ rpc[r] \in {"resolved", "rejected"}
    /\ rpc' = [rpc EXCEPT ![r] = "idle"]
    /\ rauth' = [rauth EXCEPT ![r] = NoToken]
    /\ retry' = [retry EXCEPT ![r] = FALSE]
    /\ rstatus' = [rstatus EXCEPT ![r] = 0]
    /\ rrefresh' = [rrefresh EXCEPT ![r] = NoToken]
    /\ rerror' = [rerror EXCEPT ![r] = None]
    /\ UNCHANGED <<storeVars, callVars, routeVars, issued, loginVars>>
    /\ UNCHANGED authOthers

\* The page load that the assignment to window.location.href started: the
\* document at /login replaces this one, the store is read back from
\* 'auth-storage' (isLoading is not persisted), and what was under way is
\* gone.
PageLoad ==
    /\ reloading
    /\ reloading' = FALSE
    /\ StoreBecomes(SetLoading(Store, FALSE))
    /\ Render("/login", NoLocation, SetLoading(Store, FALSE))
    /\ rpc' = [r \in Requests |-> "idle"]
    /\ rauth' = [r \in Requests |-> NoToken]
    /\ retry' = [r \in Requests |-> FALSE]
    /\ rstatus' = [r \in Requests |-> 0]
    /\ rrefresh' = [r \in Requests |-> NoToken]
    /\ rerror' = [r \in Requests |-> None]
    /\ lpc' = "idle"
    /\ ltokens' = 0
    /\ opc' = "idle"
    /\ UNCHANGED <<issued, callVars>>
    /\ UNCHANGED authOthers

AuthNext ==
    \/ \E loc \in Locations : Visit(loc)
    \/ ClickLogout
    \/ \E b \in BOOLEAN : CallSetLoading(b)
    \/ LoginSubmit
    \/ LoginAnswered
    \/ LoginCompletes
    \/ LoginUnauthorized
    \/ LoginRefreshAnswered
    \/ LoginRefreshFails
    \/ LoginFails
    \/ OnboardingSubmit
    \/ OnboardingCompletes
    \/ OnboardingFails
    \/ \E r \in Requests : ApiRequest(r)
    \/ \E r \in Requests : ResponseOk(r)
    \/ \E r \in Requests, status \in {Unauthorized, ServerError} :
          ResponseError(r, status)
    \/ \E r \in Requests : RefreshAnswered(r)
    \/ \E r \in Requests : RefreshFails(r)
    \/ \E r \in Requests : Settle(r)
    \/ PageLoad

\* ------------------------------------------------------------------------
\* The drift of one portfolio (Dashboard.jsx, generateAiInsights), computed
\* for holdings whose last accepted target weights are known
\* ------------------------------------------------------------------------

\* Current weights and target weights in hundredths; the targets of a
\* portfolio sum to 1, the total the code compares with.
CurrentWeights == {30, 47, 50, 53, 70}
TargetWeights == {30, 50, 70, 100}

DriftHoldingsAt(n) ==
    {[i \in 1..n |-> [symbol |-> HoldingSymbols[i], weight |-> f[i][1],
                      target |-> f[i][2]]] :
        f \in {g \in [1..n -> CurrentWeights \X TargetWeights] :
                  SumOver([i \in 1..n |-> g[i][2]], 1..n) = 100}}

DriftInputs ==
    {[name |-> "p1", holdings |-> hs] :
        hs \in UNION {DriftHoldingsAt(n) : n \in 1..Len(HoldingSymbols)}}

DriftIdle ==
    /\ driftIn = [name |-> "p1", holdings |-> <<>>]
    /\ driftOut = NotEvaluated

DriftInit ==
    /\ driftIn \in DriftInputs
    /\ driftOut = NotEvaluated

\* Lines 166-167 run on the portfolio.
ComputeDrift ==
    /\ driftOut = NotEvaluated
    /\ driftOut' = Drift(driftIn)
    /\ UNCHANGED driftIn
    /\ UNCHANGED driftOthers

\* The next response brings the portfolio with other weights.
NextPortfolio(portfolio) ==
    /\ driftOut # NotEvaluated
    /\ driftIn' = portfolio
    /\ driftOut' = NotEvaluated
    /\ UNCHANGED driftOthers

DriftNext ==
    \/ ComputeDrift
    \/ \E portfolio \in DriftInputs : NextPortfolio(portfolio)

\* ------------------------------------------------------------------------
\* The DepositWithdraw page: fetchUserData, handleDeposit, handleWithdraw
\* ------------------------------------------------------------------------

\* What the user can type into the amount input, and parseFloat of it.
AmountTexts == {"", "0", "-50", "50", "100"}
NaN == [nan |-> TRUE, value |-> 0]
Number(n) == [nan |-> FALSE, value |-> n]

ParseFloat(text) ==
    CASE text = "" -> NaN
      [] text = "0" -> Number(0)
      [] text = "-50" -> Number(-50)
      [] text = "50" -> Number(50)
      [] text = "100" -> Number(100)

\* `!depositAmount || depositAmount <= 0`: NaN and 0 are falsy.
InvalidAmount(x) == x.nan \/ x.value = 0 \/ x.value <= 0

\* A withdrawal check that lets every amount through.
InsufficientFundsNever(withdrawAmount, b) == FALSE

\* `withdrawAmount > balance`
InsufficientFunds(withdrawAmount, b) == withdrawAmount > b

\* An operation that persists the balance it started from.
NewBalanceUnchanged(kind, b, a) == b

\* A deposit that persists the amount instead of the new balance.
NewBalanceIsAmount(kind, b, a) == a

\* `balance + depositAmount`, `balance - withdrawAmount`
NewBalance(kind, b, a) == IF kind = "deposit" THEN b + a ELSE b - a

\* A maximum that does not clamp.
MaxUnclamped(a, b) == b

\* Math.max
Max(a, b) == IF a > b THEN a ELSE b

\* `portfolios.find(p => p.id.toString() === selectedPortfolio)`
Find(ps, id) == SelectSeq(ps, LAMBDA q : q.id = id)

\* The total_value sent to portfolioApi.update for portfolio `q`.
NewTotalValue(kind, q, a) ==
    IF kind = "deposit" THEN q.total_value + a
    ELSE Max(0, q.total_value - a)

\* No operation has succeeded yet.
NoTransaction == [type |-> None, amount |-> 0]

\* The transactions that fetchUserData sets.
MockTransactions == <<[type |-> "deposit", amount |-> 10000]>>

\* The page before it is mounted, for the runs that do not visit it.
WalletIdle ==
    /\ balance = 0
    /\ amount = ""
    /\ activeTab = "deposit"
    /\ selectedPortfolio = ""
    /\ portfolios = <<>>
    /\ transactions = <<>>
    /\ dwIsLoading = FALSE
    /\ isFetching = TRUE
    /\ toast = None
    /\ dwpc = "unmounted"
    /\ opKind = None
    /\ opAmount = 0
    /\ newBalance = 0
    /\ recorded = NoTransaction
    /\ serverPrefs = 0
    /\ serverPortfolios = <<>>

\* The page is mounted: the initial state of its useState hooks, and the
\* effect has called fetchUserData, which awaits userApi.getPreferences().
WalletInit ==
    /\ balance = 0
    /\ amount = ""
    /\ activeTab = "deposit"
    /\ selectedPortfolio = ""
    /\ portfolios = <<>>
    /\ transactions = <<>>
    /\ dwIsLoading = FALSE
    /\ isFetching = TRUE
    /\ toast = None
    /\ dwpc = "getPreferences"
    /\ opKind = None
    /\ opAmount = 0
    /\ newBalance = 0
    /\ recorded = NoTransaction
    /\ serverPrefs \in {0, 100}
    /\ serverPortfolios \in
          {<<>>, <<[id |-> "1", total_value |-> 50]>>}

\* The user types into the amount input.
SetAmount(text) ==
    /\ ~isFetching
    /\ amount # text
    /\ amount' = text
    /\ UNCHANGED <<balance, activeTab, selectedPortfolio, portfolios,
                   transactions, dwIsLoading, isFetching, toast>>
    /\ UNCHANGED <<handlerVars, serverVars>>
    /\ UNCHANGED walletOthers

\* The user picks the Deposit or the Withdraw tab.
SetActiveTab(tab) ==
    /\ ~isFetching
    /\ activeTab # tab
    /\ activeTab' = tab
    /\ UNCHANGED <<balance, amount, selectedPortfolio, portfolios,
                   transactions, dwIsLoading, isFetching, toast>>
    /\ UNCHANGED <<handlerVars, serverVars>>
    /\ UNCHANGED walletOthers

\* The user clicks the button (enabled unless isLoading or the amount is
\* empty): handleSubmit runs handleDeposit or handleWithdraw up to a
\* rejection or to `await userApi.updatePreferences(...)`.
HandleSubmit ==
    /\ ~isFetching
    /\ ~dwIsLoading
    /\ amount # ""
    /\ LET x == ParseFloat(amount)
           kind == IF activeTab = "deposit" THEN "deposit" ELSE "withdrawal"
       IN  IF InvalidAmount(x)
           THEN /\ toast' = "Please enter a valid amount"
                /\ UNCHANGED <<dwIsLoading, handlerVars>>
           ELSE IF kind = "withdrawal" /\ InsufficientFunds(x.value, balance)
           THEN /\ toast' = "Insufficient funds"
                /\ UNCHANGED <<dwIsLoading, handlerVars>>
           ELSE IF selectedPortfolio = ""
           THEN /\ toast' = "Please select a portfolio"
                /\ UNCHANGED <<dwIsLoading, handlerVars>>
           ELSE /\ NewBalance(kind, balance, x.value) <= MaxBalance
                /\ \A i \in DOMAIN portfolios :
                      NewTotalValue(kind, portfolios[i], x.value)
                          <= MaxBalance
                /\ Len(transactions) < MaxTransactions
                /\ dwIsLoading' = TRUE
                /\ opKind' = kind
                /\ opAmount' = x.value
                /\ newBalance' = NewBalance(kind, balance, x.value)
                /\ UNCHANGED recorded
                /\ dwpc' = "updatePreferences"
                /\ UNCHANGED toast
    /\ UNCHANGED <<balance, amount, activeTab, selectedPortfolio, portfolios,
                   transactions, isFetching>>
    /\ UNCHANGED serverVars
    /\ UNCHANGED walletOthers

\* The rest of the try block once the server updates are done: setBalance,
\* setTransactions, the success toast, setAmount(''), fetchUserData(), and
\* the finally.
Succeed ==
    /\ balance' = newBalance
    /\ transactions' =
          <<[type |-> opKind, amount |-> opAmount]>> \o transactions
    /\ recorded' = [type |-> opKind, amount |-> opAmount]
    /\ toast' = "Successfully " \o opKind
    /\ amount' = ""
    /\ isFetching' = TRUE
    /\ dwIsLoading' = FALSE
    /\ dwpc' = "getPreferences"
    /\ opKind' = None
    /\ opAmount' = 0
    /\ newBalance' = 0

\* The catch and the finally of the handler.
Fail ==
    /\ toast' = "Failed to process " \o opKind
    /\ dwIsLoading' = FALSE
    /\ dwpc' = "idle"
    /\ opKind' = None
    /\ opAmount' = 0
    /\ newBalance' = 0
    /\ UNCHANGED <<balance, amount, transactions, isFetching, recorded>>

\* userApi.updatePreferences({initial_investment: newBalance}) answers.
UpdatePreferencesAnswers(ok) ==
    /\ dwpc = "updatePreferences"
    /\ IF ok
       THEN /\ serverPrefs' = newBalance
            /\ IF Find(portfolios, selectedPortfolio) # <<>>
               THEN /\ dwpc' = "portfolioUpdate"
                    /\ UNCHANGED <<balance, amount, transactions, dwIsLoading,
                                   isFetching, toast, opKind, opAmount,
                                   newBalance, recorded>>
               ELSE Succeed
       ELSE /\ Fail
            /\ UNCHANGED serverPrefs
    /\ UNCHANGED <<activeTab, selectedPortfolio, portfolios, serverPortfolios>>
    /\ UNCHANGED walletOthers

\* portfolioApi.update(selectedPortfolio, {total_value: ...}) answers.
PortfolioUpdateAnswers(ok) ==
    /\ dwpc = "portfolioUpdate"
    /\ IF ok
       THEN /\ serverPortfolios' =
                  [i \in DOMAIN serverPortfolios |->
                      IF serverPortfolios[i].id = selectedPortfolio
                      THEN [serverPortfolios[i] EXCEPT !.total_value =
                              NewTotalValue(opKind,
                                  Head(Find(portfolios, selectedPortfolio)),
                                  opAmount)]
                      ELSE serverPortfolios[i]]
            /\ Succeed
       ELSE /\ Fail
            /\ UNCHANGED serverPortfolios
    /\ UNCHANGED <<activeTab, selectedPortfolio, portfolios, serverPrefs>>
    /\ UNCHANGED walletOthers

\* fetchUserData: userApi.getPreferences() answers; on success setBalance and
\* `await portfolioApi.getAll()`, else the catch and the finally.
GetPreferencesAnswers(ok) ==
    /\ dwpc = "getPreferences"
    /\ IF ok
       THEN /\ balance' = serverPrefs
            /\ dwpc' = "getAll"
            /\ UNCHANGED <<isFetching, toast>>
       ELSE /\ toast' = "Failed to load account data"
            /\ isFetching' = FALSE
            /\ dwpc' = "idle"
            /\ UNCHANGED balance
    /\ UNCHANGED <<amount, activeTab, selectedPortfolio, portfolios,
                   transactions, dwIsLoading, opKind, opAmount, newBalance,
                   recorded>>
    /\ UNCHANGED serverVars
    /\ UNCHANGED walletOthers

\* fetchUserData: portfolioApi.getAll() answers; on success setPortfolios
\* and setSelectedPortfolio when the list is not empty, then setTransactions
\* with the mock list; the finally shows the page again.
GetAllAnswers(ok) ==
    /\ dwpc = "getAll"
    /\ IF ok
       THEN /\ IF serverPortfolios # <<>>
               THEN /\ portfolios' = serverPortfolios
                    /\ selectedPortfolio' = serverPortfolios[1].id
               ELSE UNCHANGED <<portfolios, selectedPortfolio>>
            /\ transactions' = MockTransactions
            /\ UNCHANGED toast
       ELSE /\ toast' = "Failed to load account data"
            /\ UNCHANGED <<portfolios, selectedPortfolio, transactions>>
    /\ isFetching' = FALSE
    /\ dwpc' = "idle"
    /\ UNCHANGED <<balance, amount, activeTab, dwIsLoading, opKind, opAmount,
                   newBalance, recorded>>
    /\ UNCHANGED serverVars
    /\ UNCHANGED walletOthers

WalletNext ==
    \/ \E text \in AmountTexts : SetAmount(text)
    \/ \E tab \in {"deposit", "withdraw"} : SetActiveTab(tab)
    \/ HandleSubmit
    \/ \E ok \in BOOLEAN : UpdatePreferencesAnswers(ok)
    \/ \E ok \in BOOLEAN : PortfolioUpdateAnswers(ok)
    \/ \E ok \in BOOLEAN : GetPreferencesAnswers(ok)
    \/ \E ok \in BOOLEAN : GetAllAnswers(ok)

\* ------------------------------------------------------------------------
\* The Analysis page: fetchAIAnalysis
\* ------------------------------------------------------------------------

AnalysisCalls == 1..NumAnalysisCalls

\* The symbols of the search results and of the popular assets.
AnalysisSymbols == {"AAPL", "MSFT", "NVDA"}

\* The signals the analysis endpoint answers with.
AnalysisSignals == {"buy", "sell"}

\* useState(null) of aiAnalysis and of selectedAsset.
NoAnalysis == [symbol |-> None, signal |-> None, risk_level |-> None]
NoAsset == [symbol |-> None, signal |-> None]

\* The data of the response to /market/ai-analysis/{symbol}: the server
\* answers for the symbol of the URL.
AnalysisResponse(symbol, signal) ==
    [symbol |-> symbol, signal |-> signal, risk_level |-> "medium"]

\* A selected asset that is not taken from the response.
SelectedAssetNone(data) == NoAsset

\* setSelectedAsset({symbol: response.data.symbol, signal: ..., ...})
SelectedAsset(data) == [symbol |-> data.symbol, signal |-> data.signal]

\* The page before anything is asked of it.
AnalysisInit ==
    /\ selectedAsset = NoAsset
    /\ aiAnalysis = NoAnalysis
    /\ isAnalyzing = FALSE
    /\ analysisCall = [c \in AnalysisCalls |-> None]
    /\ lastRequested = None
    /\ analysisToast = None
    /\ analysisOutcome = None

\* A click on a search result or a popular asset, or handleSearch with a
\* result: fetchAIAnalysis(symbol) up to `await marketApi.getAIAnalysis`.
FetchAIAnalysis(c, symbol) ==
    /\ analysisCall[c] = None
    /\ analysisCall' = [analysisCall EXCEPT ![c] = symbol]
    /\ isAnalyzing' = TRUE
    /\ lastRequested' = symbol
    /\ UNCHANGED <<selectedAsset, aiAnalysis, analysisToast, analysisOutcome>>
    /\ UNCHANGED analysisOthers

\* The response of call `c` arrives: setAiAnalysis, setSelectedAsset, and
\* the finally.
AnalysisAnswers(c, signal) ==
    /\ analysisCall[c] # None
    /\ aiAnalysis' = AnalysisResponse(analysisCall[c], signal)
    /\ selectedAsset' = SelectedAsset(AnalysisResponse(analysisCall[c], signal))
    /\ isAnalyzing' = FALSE
    /\ analysisCall' = [analysisCall EXCEPT ![c] = None]
    /\ analysisOutcome' = "response"
    /\ UNCHANGED <<lastRequested, analysisToast>>
    /\ UNCHANGED analysisOthers

\* The call fails: the catch shows the toast, and the finally.
AnalysisFails(c) ==
    /\ analysisCall[c] # None
    /\ analysisToast' = "Failed to get AI analysis"
    /\ analysisOutcome' = "error"
    /\ isAnalyzing' = FALSE
    /\ analysisCall' = [analysisCall EXCEPT ![c] = None]
    /\ UNCHANGED <<selectedAsset, aiAnalysis, lastRequested>>
    /\ UNCHANGED analysisOthers

AnalysisNext ==
    \/ \E c \in AnalysisCalls, symbol \in AnalysisSymbols :
          FetchAIAnalysis(c, symbol)
    \/ \E c \in AnalysisCalls, signal \in AnalysisSignals :
          AnalysisAnswers(c, signal)
    \/ \E c \in AnalysisCalls : AnalysisFails(c)

\* ------------------------------------------------------------------------
\* Specifications
\* ------------------------------------------------------------------------

InitQuote == QuoteInit /\ LimIdle /\ DashInit /\ PipeInit /\ AuthInit /\ DriftIdle /\ WalletIdle /\ AnalysisInit

SpecQuote == InitQuote /\ [][QuoteNext]_vars

InitLimiter == LimInit /\ QuoteInit /\ DashInit /\ PipeInit /\ AuthInit /\ DriftIdle /\ WalletIdle /\ AnalysisInit

SpecLimiter == InitLimiter /\ [][LimNext]_vars

InitDash == DashInit /\ QuoteInit /\ LimIdle /\ PipeInit /\ AuthInit /\ DriftIdle /\ WalletIdle /\ AnalysisInit

SpecDash == InitDash /\ [][DashNext]_vars

InitPipeline == PipeInit /\ QuoteInit /\ LimIdle /\ DashInit /\ AuthInit /\ DriftIdle /\ WalletIdle /\ AnalysisInit

SpecPipeline == InitPipeline /\ [][PipeNext]_vars

InitAuth == AuthInit /\ QuoteInit /\ LimIdle /\ DashInit /\ PipeInit /\ DriftIdle /\ WalletIdle /\ AnalysisInit

SpecAuth == InitAuth /\ [][AuthNext]_vars

InitDrift == DriftInit /\ QuoteInit /\ LimIdle /\ DashInit /\ PipeInit /\ AuthInit /\ WalletIdle /\ AnalysisInit

SpecDrift == InitDrift /\ [][DriftNext]_vars

InitWallet == WalletInit /\ QuoteInit /\ LimIdle /\ DashInit /\ PipeInit /\ AuthInit /\ DriftIdle /\ AnalysisInit

SpecWallet == InitWallet /\ [][WalletNext]_vars

InitAnalysis == AnalysisInit /\ QuoteInit /\ LimIdle /\ DashInit /\ PipeInit /\ AuthInit /\ DriftIdle /\ WalletIdle

SpecAnalysis == InitAnalysis /\ [][AnalysisNext]_vars

\* ------------------------------------------------------------------------
\* Claims
\* ------------------------------------------------------------------------

\* C1: single-flight. Calls of get_quote for the same symbol that overlap
\* while the cache holds no entry share one provider call: two coroutines
\* never wait on Finnhub for the same cache key at once.
C1_SingleFlight ==
    \A c1, c2 \in Callers :
        (c1 # c2 /\ qpc[c1] = "fetch" /\ qpc[c2] = "fetch")
            => qsym[c1] # qsym[c2]

\* C2: in every rolling interval [t, t + window] the limiter admits at most
\* max_calls calls.
C2_WindowBudget ==
    \A t \in 0..MaxTime :
        Cardinality({i \in DOMAIN admitted :
                        t <= admitted[i] /\ admitted[i] <= t + window})
            <= max_calls

\* C2 witness: the budget is used up, a call has been refused, and a later
\* call was admitted after the window moved on.
C2_Witness ==
    /\ Len(admitted) > max_calls
    /\ Len(calls) = max_calls
    /\ ~HasBudget(RemoveOld(calls, now, window), max_calls)

\* C3: at most one recommendation per drift episode: an evaluation that
\* still sees the drift of a portfolio above the threshold, after a
\* recommendation for it was shown, shows no further one.
C3_OneRecommendationPerEpisode ==
    \A n \in NameSet : recsInEpisode[n] <= 1

C7_ProviderFallback ==
    [][\A c \in Callers :
          (qpc[c] = "fetch" /\ ~finnhubUp /\ yahooUp) => qpc'[c] # "raised"]_vars

\* C5: every Allocation that optimize returns has invested weights that sum
\* to 1 - cash_reserve_fraction, whichever status (optimal, relaxed or
\* fallback) produced it.
C5_WeightsSumToInvested ==
    allocation # NoAllocation =>
        /\ allocation.status \in {"optimal", "relaxed", "fallback"}
        /\ DOMAIN allocation.weights = pin.symbols
        /\ SumOver(allocation.weights, pin.symbols) =
              WeightUnit - pin.constraints.cash

\* C5 happens: the pipeline has returned an equal-weight fallback allocation
\* under a non-zero cash reserve.
C5_Witness ==
    /\ ppc = "done"
    /\ allocation.status = "fallback"
    /\ pin.constraints.cash > 0

\* C6: when the model is not trained, the pipeline ends with the
\* equal-weight allocation over its symbols, status fallback, and not with
\* an exception.
C6_UntrainedModelFallsBack ==
    (/\ ppc \in {"done", "raised"}
     /\ model # "trained"
     /\ perror \notin {"ProviderError", "AnalysisError"}) =>
        /\ ppc = "done"
        /\ allocation.status = "fallback"
        /\ allocation.weights = EqualWeight(pin.symbols, pin.constraints)

\* C8: a protected route never shows its page while isAuthenticated is
\* false. It shows the loading indicator while isLoading is true; otherwise,
\* when not authenticated, the router is sent to /login with the attempted
\* location in state.from; the page shows only when isAuthenticated is true
\* and isLoading is false.
C8_ProtectedRouteGuards ==
    /\ [](/\ screen \in Protected =>
                (isAuthenticated /\ ~isLoading /\ screen = location)
          /\ (location \in Protected /\ isLoading) => screen = "Loading"
          /\ (location \in Protected /\ ~isLoading) =>
                (isAuthenticated /\ screen = location)
          /\ fromState # NoLocation =>
                (location = "/login" /\ fromState \in Protected))
    /\ [][(/\ location \in Protected
           /\ ~reloading
           /\ storeVars' # storeVars
           /\ ~isAuthenticated'
           /\ ~isLoading') =>
              (/\ location' = "/login"
               /\ screen' = "/login"
               /\ fromState' = location)]_vars

\* C8 happens: a user who had logged in is no longer authenticated, and the
\* protected route /analysis has sent the router to /login with state.from.
C8_Witness ==
    /\ issued > 0
    /\ ~isAuthenticated
    /\ ~isLoading
    /\ location = "/login"
    /\ fromState = "/analysis"

\* C9: a 401 on a request not yet retried, while the store holds a refresh
\* token, makes the interceptor call /auth/refresh with that token; when the
\* refresh succeeds both tokens of the store become the returned pair and the
\* request is sent again, once, with the new access token; the caller gets
\* the outcome of that second sending.
C9_RefreshAndResendOnce ==
    [][\A r \in Requests :
          /\ (/\ rpc[r] = "sent"
              /\ rpc'[r] # "sent"
              /\ rstatus'[r] = Unauthorized
              /\ refreshToken # NoToken) =>
                 (/\ rpc'[r] = "refreshing"
                  /\ rrefresh'[r] = refreshToken
                  /\ retry'[r])
          /\ (rpc[r] = "refreshing" /\ rpc'[r] = "resent") =>
                 (/\ issued' = issued + 1
                  /\ token' = Access(issued')
                  /\ refreshToken' = Refresh(issued')
                  /\ rauth'[r] = Access(issued'))
          /\ rpc[r] = "refreshing" =>
                 rpc'[r] \in {"refreshing", "resent", "rejected", "idle"}
          /\ rpc[r] = "resent" =>
                 /\ rpc'[r] \in {"resent", "resolved", "rejected", "idle"}
                 /\ rauth'[r] = rauth[r] \/ rpc'[r] = "idle"
          /\ (rpc[r] = "resent" /\ rpc'[r] = "resolved") =>
                 rstatus'[r] = 200
          /\ (rpc[r] = "resent" /\ rpc'[r] = "rejected") =>
                 (rstatus'[r] # 200 /\ rerror'[r] = "error")]_vars

\* C9 happens: a request was answered 401, the tokens were refreshed, and
\* its second sending, with the store's new access token, succeeded.
C9_Witness ==
    \E r \in Requests :
        /\ rpc[r] = "resolved"
        /\ retry[r]
        /\ rauth[r] = token
        /\ rauth[r].kind = "access"
        /\ rrefresh[r].kind = "refresh"
        /\ rrefresh[r].pair < rauth[r].pair

\* C10: when the refresh call fails, the store is logged out (user, token
\* and refreshToken null, isAuthenticated false), the browser is sent to
\* /login, and the promise of the original caller is rejected.
C10_LogoutOnRefreshFailure ==
    [][/\ \A r \in Requests :
             (rpc[r] = "refreshing" /\ rpc'[r] = "rejected") =>
                 (/\ user' = None
                  /\ token' = NoToken
                  /\ refreshToken' = NoToken
                  /\ ~isAuthenticated'
                  /\ reloading'
                  /\ screen' \notin Protected
                  /\ rerror'[r] = "refreshError")
       /\ (reloading /\ ~reloading') =>
             (location' = "/login" /\ screen' = "/login")]_vars

\* C10 happens: a refresh call of a logged-in user has failed, and its
\* caller holds the rejection.
C10_Witness ==
    \E r \in Requests :
        /\ rpc[r] = "rejected"
        /\ rerror[r] = "refreshError"
        /\ rrefresh[r].kind = "refresh"
        /\ reloading
        /\ ~isAuthenticated

\* C11: after logout the store has user, token and refreshToken null and
\* isAuthenticated false, from whatever state logout was called in, and it
\* stays so until the next login or setTokens call (nothing calls setUser).
C11_LogoutClears ==
    lastCall = "logout" =>
        /\ user = None
        /\ token = NoToken
        /\ refreshToken = NoToken
        /\ ~isAuthenticated

\* C11 happens: a user who had logged in clicked Logout on a protected page.
C11_Witness ==
    /\ lastCall = "logout"
    /\ issued > 0
    /\ ~reloading
    /\ location = "/login"
    /\ fromState \in Protected

\* C12: the drift that is compared with the threshold is the sum, over the
\* assets of the portfolio, of |current weight - target weight|.
C12_DriftIsSumOfAbsoluteDifferences ==
    driftOut # NotEvaluated =>
        driftOut =
            SumOver([i \in DOMAIN driftIn.holdings |->
                        Abs(driftIn.holdings[i].weight
                              - driftIn.holdings[i].target)],
                    DOMAIN driftIn.holdings)

C15_PartialFailureIsolated ==
    [][(ppc \in {"quotes", "history"} /\ Cardinality(pin.symbols) > 1) =>
          ppc' # "raised"]_vars

\* C16: within one run, training and prediction start only after the quote
\* call and the history call of every requested symbol have completed.
C16_FanInBeforeSignals ==
    ppc \in {"train", "predict", "optimize", "analysis", "done"} =>
        (quoted = pin.symbols /\ historied = pin.symbols)

\* C16 happens: the run for three symbols is at the prediction step.
C16_Witness ==
    /\ ppc = "predict"
    /\ pin.symbols = Universe
    /\ quoted = Universe
    /\ historied = Universe

\* C14: stale fallback. When the fetch for a key fails and an expired entry
\* for that key exists, the caller gets that entry, marked stale, and not
\* the error.
C14_StaleFallback ==
    [][\A c \in Callers :
          (/\ qpc[c] = "fetch"
           /\ qpc'[c] # "fetch"
           /\ ~finnhubUp
           /\ ~yahooUp
           /\ expired[CacheKey(qsym[c])] # None) =>
              (/\ qpc'[c] = "returned"
               /\ quote'[c] = ParseRaw(expired[CacheKey(qsym[c])]))]_vars

\* C17: after a protected route has sent an unauthenticated visitor to
\* /login, a successful login navigates to the location saved in state.from.
C17_PostLoginRedirect ==
    [][(/\ lpc = "me"
        /\ lpc' = "idle"
        /\ token' = Access(ltokens)
        /\ fromState # NoLocation) =>
           location' = fromState]_vars

\* C18: a request sent through the api instance while the store holds a
\* token carries that token, the one in the store when it is sent, as its
\* Authorization header; one sent while the token is null gets no header
\* from the interceptor.
C18_AuthorizationHeader ==
    [][\A r \in Requests :
          /\ (rpc[r] = "idle" /\ rpc'[r] = "sent") =>
                (/\ token # NoToken => rauth'[r] = token
                 /\ token = NoToken => rauth'[r] = NoToken)
          /\ (rpc[r] = "refreshing" /\ rpc'[r] = "resent") =>
                (token' # NoToken /\ rauth'[r] = token')]_vars

\* C18 happens: two requests are under way, one sent with the store's token
\* and one sent without a header after the logout.
C18_Witness ==
    /\ token = NoToken
    /\ \E r1, r2 \in Requests :
          /\ rpc[r1] = "sent"
          /\ rauth[r1].kind = "access"
          /\ rpc[r2] = "sent"
          /\ rauth[r2] = NoToken

\* C19: a withdrawal of more than the available balance is rejected with
\* 'Insufficient funds': no API call is made, and the balance, the
\* portfolios and the transaction history, on the page and on the server,
\* stay as they are.
C19_InsufficientFundsRejected ==
    [][(/\ dwpc = "idle"
        /\ ~isFetching
        /\ activeTab = "withdraw"
        /\ ~InvalidAmount(ParseFloat(amount))
        /\ ParseFloat(amount).value > balance) =>
           (/\ dwpc' = "idle"
            /\ ~dwIsLoading'
            /\ UNCHANGED <<balance, portfolios, transactions, serverVars>>
            /\ (amount' = amount /\ activeTab' = activeTab) =>
                  toast' = "Insufficient funds")]_vars

\* C19 happens: with a balance of 50 a withdrawal of 100 has been refused.
C19_Witness ==
    /\ toast = "Insufficient funds"
    /\ activeTab = "withdraw"
    /\ amount = "100"
    /\ balance = 50
    /\ dwpc = "idle"

\* C20: a successful deposit of a > 0 leaves the balance at the balance
\* before plus a, a successful withdrawal of w, 0 < w <= balance, at the
\* balance before minus w; the value persisted through updatePreferences is
\* that new balance, and the refresh that follows keeps it.
C20_BalanceUpdated ==
    [][/\ (dwpc \in {"updatePreferences", "portfolioUpdate"}
             /\ dwpc' = "getPreferences") =>
            (/\ opAmount > 0
             /\ opKind = "deposit" => balance' = balance + opAmount
             /\ opKind = "withdrawal" =>
                   (opAmount <= balance /\ balance' = balance - opAmount)
             /\ serverPrefs' = balance')
       /\ (/\ dwpc = "getPreferences"
           /\ dwpc' = "getAll"
           /\ toast \in {"Successfully deposit", "Successfully withdrawal"}) =>
              balance' = balance]_vars

\* C20 happens: a withdrawal of 50 from a balance of 100 has succeeded and
\* the page has been refreshed.
C20_Witness ==
    /\ toast = "Successfully withdrawal"
    /\ dwpc = "idle"
    /\ ~isFetching
    /\ balance = 50
    /\ serverPrefs = 50

\* C21: every successful deposit or withdrawal adds an entry with its type
\* and amount to the transaction history, and the entry is still there once
\* the operation and its follow-up refresh have finished.
C21_TransactionRecorded ==
    (recorded # NoTransaction /\ dwpc = "idle") =>
        \E i \in DOMAIN transactions : transactions[i] = recorded

\* C22: the 401 handling terminates. A request moves only forward through
\* sent, refreshing, resent and its outcome; it reaches /auth/refresh only
\* from its first sending and marks _retry as it does, it is re-sent only
\* after a refresh, a 401 on the re-sent request is rejected without another
\* refresh, and a failed refresh rejects without passing the interceptor.
C22_RefreshTerminates ==
    [][\A r \in Requests :
          LET rank(pc) ==
                  CASE pc = "sent" -> 4
                    [] pc = "refreshing" -> 3
                    [] pc = "resent" -> 2
                    [] pc \in {"resolved", "rejected"} -> 1
                    [] OTHER -> 0
          IN  /\ (rpc'[r] # rpc[r] /\ rpc[r] # "idle") =>
                    rank(rpc'[r]) < rank(rpc[r])
              /\ (rpc'[r] = "refreshing" /\ rpc[r] # "refreshing") =>
                    (rpc[r] = "sent" /\ ~retry[r] /\ retry'[r])
              /\ (rpc'[r] = "resent" /\ rpc[r] # "resent") =>
                    (rpc[r] = "refreshing" /\ retry[r])
              /\ (retry[r] /\ rpc'[r] # "idle") => retry'[r]
              /\ (/\ rpc[r] = "resent"
                  /\ rpc'[r] # "resent"
                  /\ rstatus'[r] = Unauthorized) =>
                     (/\ rpc'[r] = "rejected"
                      /\ issued' = issued
                      /\ UNCHANGED storeVars)]_vars

\* C22 happens: a request was refreshed and re-sent, its second sending was
\* answered 401 too, and it has been rejected.
C22_Witness ==
    \E r \in Requests :
        /\ rpc[r] = "rejected"
        /\ retry[r]
        /\ rstatus[r] = Unauthorized
        /\ rerror[r] = "error"
        /\ rrefresh[r].kind = "refresh"
        /\ rauth[r].kind = "access"
        /\ rauth[r].pair > rrefresh[r].pair

\* C23: a logout while a token refresh is in flight does not cancel it. The
\* logout leaves the refresh call under way, and when its response arrives
\* setTokens stores the new pair and touches nothing else of the store, so
\* the store can hold a token while user is null and isAuthenticated false.
C23_LogoutDoesNotCancelRefresh ==
    [][\A r \in Requests :
          /\ (/\ rpc[r] = "refreshing"
              /\ isAuthenticated
              /\ ~isAuthenticated'
              /\ ~reloading') =>
                 (/\ rpc'[r] = "refreshing"
                  /\ rrefresh'[r] = rrefresh[r])
          /\ (rpc[r] = "refreshing" /\ rpc'[r] = "resent") =>
                 (/\ token' = Access(issued')
                  /\ refreshToken' = Refresh(issued')
                  /\ user' = user
                  /\ isAuthenticated' = isAuthenticated)]_vars

\* C23 happens: the user logged out while a refresh was in flight, the
\* refresh has answered, and the logged-out store holds the new tokens.
C23_Witness ==
    /\ lastCall = "setTokens"
    /\ token.kind = "access"
    /\ refreshToken.kind = "refresh"
    /\ user = None
    /\ ~isAuthenticated
    /\ \E r \in Requests : rpc[r] = "resent" /\ rauth[r] = token

\* C24: refresh calls are not deduplicated. A request answered 401 while
\* another request's refresh is in flight starts a refresh call of its own
\* with the refresh token the store holds, and leaves the other call alone;
\* every refresh response that arrives stores its own pair, so the store
\* holds the pair of the response that arrived last.
C24_RefreshNotDeduplicated ==
    [][\A r \in Requests :
          /\ (/\ rpc[r] = "sent"
              /\ rpc'[r] # "sent"
              /\ rstatus'[r] = Unauthorized
              /\ refreshToken # NoToken
              /\ \E q \in Requests \ {r} : rpc[q] = "refreshing") =>
                 (/\ rpc'[r] = "refreshing"
                  /\ rrefresh'[r] = refreshToken
                  /\ \A q \in Requests \ {r} :
                        rpc'[q] = rpc[q] /\ rrefresh'[q] = rrefresh[q])
          /\ (rpc[r] = "refreshing" /\ rpc'[r] = "resent") =>
                 (/\ issued' = issued + 1
                  /\ rauth'[r] = Access(issued')
                  /\ token' = rauth'[r]
                  /\ refreshToken' = Refresh(rauth'[r].pair)
                  /\ \A q \in Requests \ {r} :
                        rpc[q] = "resent" =>
                           rauth'[q].pair < token'.pair)]_vars

\* C24 happens: two requests were refreshed with the same refresh token, each
\* was re-sent with its own new access token, and the store holds the later
\* pair.
C24_Witness ==
    \E r1, r2 \in Requests :
        /\ rpc[r1] = "resent"
        /\ rpc[r2] = "resent"
        /\ rrefresh[r1] = rrefresh[r2]
        /\ rrefresh[r1].kind = "refresh"
        /\ rauth[r1].pair < rauth[r2].pair
        /\ token = rauth[r2]
        /\ refreshToken = Refresh(rauth[r2].pair)

\* C25: a 401 while the store holds no refresh token makes no refresh call,
\* no logout and no redirect; the auth store is unchanged and the caller is
\* rejected with the original error.
C25_NoRefreshTokenRejects ==
    [][\A r \in Requests :
          (/\ rpc[r] \in {"sent", "resent"}
           /\ rpc'[r] # rpc[r]
           /\ rstatus'[r] = Unauthorized
           /\ refreshToken = NoToken) =>
              (/\ rpc'[r] = "rejected"
               /\ rerror'[r] = "error"
               /\ rrefresh'[r] = rrefresh[r]
               /\ issued' = issued
               /\ UNCHANGED <<storeVars, routeVars, lastCall>>)]_vars

\* C25 happens: a request sent with a token was answered 401 after the logout
\* had emptied the store, and was rejected without a refresh call.
C25_Witness ==
    \E r \in Requests :
        /\ rpc[r] = "rejected"
        /\ rstatus[r] = Unauthorized
        /\ rerror[r] = "error"
        /\ retry[r]
        /\ rauth[r].kind = "access"
        /\ rrefresh[r] = NoToken
        /\ refreshToken = NoToken
        /\ ~reloading

\* C26: when the refresh call succeeded and the re-sent request fails, the
\* user is not logged out: the store and the route are left as they are and
\* the caller receives the error of the re-sent request. The logout and the
\* redirect happen only at the failure of a refresh call.
C26_ResendFailureKeepsSession ==
    [][/\ \A r \in Requests :
             (rpc[r] = "resent" /\ rpc'[r] \notin {"resent", "resolved", "idle"}) =>
                 (/\ rpc'[r] = "rejected"
                  /\ rerror'[r] = "error"
                  /\ rstatus'[r] \in {Unauthorized, ServerError}
                  /\ issued' = issued
                  /\ UNCHANGED <<storeVars, routeVars, lastCall>>)
       /\ (~reloading /\ reloading') =>
             \/ \E r \in Requests :
                   /\ rpc[r] = "refreshing"
                   /\ rpc'[r] = "rejected"
                   /\ rerror'[r] = "refreshError"
             \/ lpc = "loginRefreshing" /\ lpc' = "idle"]_vars

\* C26 happens: the re-sent request of a logged-in user has failed, and the
\* store still holds the user and the tokens the refresh stored.
C26_Witness ==
    \E r \in Requests :
        /\ rpc[r] = "rejected"
        /\ rerror[r] = "error"
        /\ rstatus[r] = ServerError
        /\ retry[r]
        /\ rrefresh[r].kind = "refresh"
        /\ rauth[r] = token
        /\ refreshToken = Refresh(token.pair)
        /\ lastCall = "setTokens"
        /\ isAuthenticated
        /\ user # None
        /\ ~reloading

\* C27: login is all-or-nothing for the auth store. A step of
\* Login.handleSubmit either leaves the store and the location as they are,
\* or it is the step after /auth/login and /auth/me have both succeeded, which
\* sets user, token, refreshToken and isAuthenticated together and navigates
\* to /dashboard.
C27_LoginAllOrNothing ==
    [][(lpc' # lpc /\ ~reloading) =>
          \/ UNCHANGED <<storeVars, location, reloading>>
          \/ /\ lpc = "me"
             /\ lpc' = "idle"
             /\ user' = "user"
             /\ token' = Access(ltokens)
             /\ refreshToken' = Refresh(ltokens)
             /\ isAuthenticated'
             /\ location' = "/dashboard"]_vars

\* C28: the two server updates of a deposit or withdrawal are made in
\* sequence without rollback. When updatePreferences has succeeded and
\* portfolioApi.update fails, the operation reports failure and leaves the
\* local balance and the transaction list as they were, although the
\* persisted balance is already the new one.
C28_NoRollback ==
    [][/\ (dwpc = "updatePreferences" /\ dwpc' = "portfolioUpdate") =>
             (/\ opAmount > 0
              /\ opKind = "deposit" => serverPrefs' = balance + opAmount
              /\ opKind = "withdrawal" => serverPrefs' = balance - opAmount
              /\ UNCHANGED <<balance, transactions, serverPortfolios>>)
       /\ (dwpc = "portfolioUpdate" /\ dwpc' = "idle") =>
             (/\ toast' = "Failed to process " \o opKind
              /\ ~dwIsLoading'
              /\ UNCHANGED <<balance, transactions, serverVars>>
              /\ serverPrefs' # balance')]_vars

\* C28 happens: a withdrawal of 50 from a balance of 100 failed at the
\* portfolio update; the page still shows 100 and the server holds 50.
C28_Witness ==
    /\ dwpc = "idle"
    /\ toast = "Failed to process withdrawal"
    /\ balance = 100
    /\ serverPrefs = 50
    /\ serverPortfolios # <<>>
    /\ serverPortfolios[1].total_value = 50

\* C29: from a non-negative balance, whatever deposits and withdrawals are
\* attempted, the available balance is never negative, neither on the page
\* nor as persisted, and the total_value sent for a portfolio, and so the
\* one the server holds, is never negative.
C29_NeverNegative ==
    /\ balance >= 0
    /\ serverPrefs >= 0
    /\ dwpc \in {"updatePreferences", "portfolioUpdate"} => newBalance >= 0
    /\ \A i \in DOMAIN serverPortfolios : serverPortfolios[i].total_value >= 0
    /\ \A i \in DOMAIN portfolios : portfolios[i].total_value >= 0

\* C29 happens: 100 was withdrawn from a balance of 100 with a portfolio
\* worth 50; the balance is 0 and the portfolio's value was clamped at 0.
C29_Witness ==
    /\ toast = "Successfully withdrawal"
    /\ dwpc = "idle"
    /\ balance = 0
    /\ serverPrefs = 0
    /\ serverPortfolios # <<>>
    /\ serverPortfolios[1].total_value = 0

\* C30: fetchAIAnalysis has no ordering guard. aiAnalysis and selectedAsset
\* are always those of one and the same response, and every response that
\* arrives replaces what is shown, whichever symbol was requested last: the
\* analysis shown is that of the response that arrived last.
C30_LastResponseWins ==
    /\ [](/\ aiAnalysis = NoAnalysis <=> selectedAsset = NoAsset
          /\ selectedAsset.symbol = aiAnalysis.symbol
          /\ selectedAsset.signal = aiAnalysis.signal)
    /\ [][\A c \in AnalysisCalls :
             (/\ analysisCall[c] # None
              /\ analysisCall'[c] = None
              /\ analysisOutcome' = "response") =>
                 (/\ aiAnalysis'.symbol = analysisCall[c]
                  /\ selectedAsset'.symbol = analysisCall[c]
                  /\ lastRequested' = lastRequested
                  /\ analysisToast' = analysisToast)]_vars

\* C30 happens: two requests overlapped, both have answered, and the
\* analysis shown is not that of the symbol requested last.
C30_Witness ==
    /\ \A c \in AnalysisCalls : analysisCall[c] = None
    /\ analysisToast = None
    /\ aiAnalysis # NoAnalysis
    /\ lastRequested # None
    /\ aiAnalysis.symbol # lastRequested
    /\ selectedAsset.symbol # lastRequested

====
